---- MODULE Spec2Model ----
(***************************************************************************)
(* Model of scripts/stage_release.py: one run of the process, from the     *)
(* command line and environment it is started with to its exit status.     *)
(*                                                                         *)
(* Python values are modelled as follows.  A str is a TLA+ string (TLC     *)
(* concatenates strings with \o).  An optional value (None, or a key that  *)
(* a dict does not have) is the empty tuple <<>>, a present one is <<v>>.  *)
(* os.environ is a function from the names it defines to their values.     *)
(* The file system is the set of directories that exist.                   *)
(***************************************************************************)
EXTENDS Integers, Sequences, FiniteSets, TLC

VARIABLES
    pc,             \* position of the process: start, setup, locate, invoke, exited
    cmdline,        \* the command line the process was started with
    environ,        \* os.environ of the process
    args,           \* the Namespace parse_args returned (<<>> before it returned)
    fs,             \* directories that exist
    fs0,            \* directories that existed when the process started
    removed,        \* directories this process has removed
    staging_dir,    \* <<path>> once main has chosen it
    scratch,        \* <<path>> while main is inside `with TemporaryDirectory`
    gh_calls,       \* argument lists of the listing calls made so far
    response,       \* what the listing call produced (<<>> when none was made)
    run,            \* <<run_id, run_url>> once locate_workflow_run returned
    script_checked, \* TRUE once invoke_stage_shell found the helper script
    delegate_calls, \* [cmd, env, status] of every invocation of stage_release.sh
    raised,         \* the exception that ended main ("" when none)
    exit_status     \* <<status>> once the process has exited

vars == <<pc, cmdline, environ, args, fs, fs0, removed, staging_dir, scratch,
          gh_calls, response, run, script_checked, delegate_calls, raised,
          exit_status>>

-----------------------------------------------------------------------------
(* Bounds of the model. *)

\* longest listing response enumerated (gh is asked for at most 20 entries)
MaxRuns == 2

-----------------------------------------------------------------------------
(* Constants of the program. *)

DEFAULT_WORKFLOW_NAME == "release.yml"

DEFAULT_REPO == "terrazul-ai/terrazul"

\* sys.exit(130) of the KeyboardInterrupt handler
EXIT_INTERRUPT == 130

\* sys.exit(1) of the Exception handler
EXIT_ERROR == 1

\* status of argparse's parser.error() (missing required argument)
EXIT_USAGE == 2

-----------------------------------------------------------------------------
(* Python helpers. *)

None == <<>>

Some(v) == <<v>>

\* truth value of an optional str: None and "" are false
Truthy(opt) == opt # None /\ opt[1] # ""

\* dict.get(key): None when the key is missing
Get(d, key) == IF key \in DOMAIN d THEN Some(d[key]) ELSE None

\* str(x) of an optional integer: str(None) is "None"
Str(opt) == IF opt = None THEN "None" ELSE ToString(opt[1])

\* Path(p).expanduser().resolve(): an absolute path stays, a relative one is
\* anchored at the working directory, the empty one is the working directory
CWD == "/work"

Resolve(p) ==
    IF p = "" THEN CWD
    ELSE IF SubSeq(p, 1, 1) = "/" THEN p
    ELSE CWD \o "/" \o p

-----------------------------------------------------------------------------
(* Inputs the model enumerates. *)

\* values of --release-version: the second extends the first
Versions == {"1.2", "1.2.3"}

\* values of --tmp: empty, absolute, relative
TmpArgs == {"", "/srv/stage", "stage"}

\* directories that always exist
BaseDirs == {"/", "/tmp", CWD}

\* the directory a command line asks to stage in, which may or may not exist
\* at start
TmpTargets(cl) == IF Truthy(cl.tmp) THEN {Resolve(cl.tmp[1])} ELSE {}

\* the name tempfile.TemporaryDirectory(prefix="tz-stage-") picks
ScratchDir == "/tmp/tz-stage-0"

\* command lines: -h/--help given or not, each option given or not
CommandLines ==
    [help : BOOLEAN,
     release_version : {None} \cup {Some(v) : v \in Versions},
     tmp : {None} \cup {Some(t) : t \in TmpArgs},
     workflow : {None, Some("nightly.yml")},
     repo : {None, Some("octo/cli")}]

SeaNames ==
    {"SEA_RELEASE_VERSION", "SEA_RELEASE_TMP", "SEA_RELEASE_RUN_ID", "SEA_RELEASE_RUN_URL"}

\* the value the caller gives to each variable it defines (one of them empty)
CallerValue ==
    [k \in SeaNames \cup {"PATH", "GITHUB_REPOSITORY"} |->
        CASE k = "SEA_RELEASE_VERSION" -> "9.9.9"
          [] k = "SEA_RELEASE_TMP" -> ""
          [] k = "SEA_RELEASE_RUN_ID" -> "555"
          [] k = "SEA_RELEASE_RUN_URL" -> "https://ci.example/run/555"
          [] k = "GITHUB_REPOSITORY" -> "acme/app"
          [] OTHER -> "/usr/bin"]

\* values of GITHUB_RUN_ID: not defined, defined and empty, defined
RunIdChoices == {None, Some(""), Some("77")}

EnvOf(defined, run_id) ==
    [k \in {"PATH"} \cup defined \cup (IF run_id = None THEN {} ELSE {"GITHUB_RUN_ID"}) |->
        IF k = "GITHUB_RUN_ID" THEN run_id[1] ELSE CallerValue[k]]

\* the SEA_RELEASE_* variables the caller defines: none, all, two of them
CallerDefined ==
    {{}, SeaNames,
     {"SEA_RELEASE_TMP", "SEA_RELEASE_RUN_ID"},
     {"SEA_RELEASE_VERSION", "SEA_RELEASE_RUN_URL"}}

Environments ==
    {EnvOf(d \cup g, r) :
        d \in CallerDefined, g \in SUBSET {"GITHUB_REPOSITORY"}, r \in RunIdChoices}

\* entries of a listing response; a field that is missing or null is None,
\* and a null entry (which the scan reads as {}) has every field None
RunListEntries ==
    {[headBranch |-> Some("sea-v1.2.3"), databaseId |-> Some(101),
      url |-> Some("https://github.com/octo/cli/actions/runs/101?check=1")],
     [headBranch |-> Some("sea-v1.2.3"), databaseId |-> Some(102), url |-> None],
     [headBranch |-> Some("sea-v1.2"), databaseId |-> Some(103), url |-> Some("")],
     [headBranch |-> Some("sea-v1.2"), databaseId |-> None,
      url |-> Some("https://github.com/octo/cli/actions/runs/104")],
     [headBranch |-> Some("v1.2.3"), databaseId |-> Some(105), url |-> None],
     [headBranch |-> None, databaseId |-> None, url |-> None]}

Listings == UNION {[1..n -> RunListEntries] : n \in 0..MaxRuns}

\* what `gh run list` can produce: a failed call (non-zero exit, no such
\* binary, output that is not JSON), no output, a JSON value that is not an
\* array, an array
Responses ==
    {[kind |-> k, runs |-> <<>>] : k \in {"failed", "empty", "object"}}
    \cup {[kind |-> "list", runs |-> l] : l \in Listings}

\* exit statuses of stage_release.sh
DelegateStatuses == {0, 2, 130}

-----------------------------------------------------------------------------
(* parse_args *)

\* the Namespace of a command line that parses: an option that is not given
\* takes its default, --repo's default coming from GITHUB_REPOSITORY
parse_args(cl, env) ==
    [release_version |-> cl.release_version[1],
     tmp |-> cl.tmp,
     workflow |-> IF cl.workflow = None THEN DEFAULT_WORKFLOW_NAME ELSE cl.workflow[1],
     repo |-> IF cl.repo # None THEN cl.repo[1]
              ELSE IF "GITHUB_REPOSITORY" \in DOMAIN env THEN env["GITHUB_REPOSITORY"]
              ELSE DEFAULT_REPO]

-----------------------------------------------------------------------------
(* Exceptions and the handlers of the __main__ block. *)

NoException == [type |-> "none", code |-> 0]

Exception(type) == [type |-> type, code |-> 0]

\* subprocess.run(check=True) on a non-zero exit
CalledProcessError(returncode) == [type |-> "CalledProcessError", code |-> returncode]

\* argparse leaves through sys.exit
SystemExit(code) == [type |-> "SystemExit", code |-> code]

\* ExitStatus with the helper script's status passed on to the caller
ExitStatus_Propagate(exc) ==
    CASE exc.type = "none" -> 0
      [] exc.type = "SystemExit" -> exc.code
      [] exc.type = "CalledProcessError" -> exc.code
      [] exc.type = "KeyboardInterrupt" -> EXIT_INTERRUPT
      [] OTHER -> EXIT_ERROR

\* ExitStatus without the KeyboardInterrupt handler
ExitStatus_InterruptAsError(exc) ==
    CASE exc.type = "none" -> 0
      [] exc.type = "SystemExit" -> exc.code
      [] OTHER -> EXIT_ERROR

\* the status the process exits with when main ended with exc
ExitStatus(exc) ==
    CASE exc.type = "none" -> 0
      [] exc.type = "SystemExit" -> exc.code
      [] exc.type = "KeyboardInterrupt" -> EXIT_INTERRUPT
      [] OTHER -> EXIT_ERROR

\* TemporaryDirectoryExit of a directory made with mkdtemp and never removed
TemporaryDirectoryExit_Leak(dirs, tmpdir) == dirs

\* TemporaryDirectory.__exit__: the directories left once the `with` block
\* of main is left, by return or by exception
TemporaryDirectoryExit(dirs, tmpdir) ==
    IF tmpdir = None THEN dirs ELSE dirs \ {tmpdir[1]}

\* main ends with exc (NoException: it returns): the scratch directory is
\* cleaned up and the process exits
Exit(exc) ==
    /\ raised' = exc
    /\ fs' = TemporaryDirectoryExit(fs, scratch)
    /\ removed' = removed \cup (fs \ fs')
    /\ scratch' = None
    /\ exit_status' = Some(ExitStatus(exc))
    /\ pc' = "exited"

-----------------------------------------------------------------------------
(* locate_workflow_run *)

\* f"sea-v{release_version}"
ExpectedBranch(release_version) == "sea-v" \o release_version

\* f"https://github.com/{repo}/actions/runs/{run_id}"
RunUrl(repo, run_id) == "https://github.com/" \o repo \o "/actions/runs/" \o run_id

\* the argument list of the listing call (the binary it is given to, --gh or
\* GH_CLI, only names the program whose outcome Responses enumerates)
GhRunListArgs(repo, workflow) ==
    <<"run", "list", "--repo", repo, "--workflow", workflow,
      "--json", "databaseId,headBranch,url", "--limit", "20">>

\* UrlOrDefault that always builds the URL
UrlOrDefault_AlwaysBuilt(url, repo, database_id) == RunUrl(repo, database_id)

\* run.get("url") or f"https://github.com/{repo}/actions/runs/{database_id}"
UrlOrDefault(url, repo, database_id) ==
    IF Truthy(url) THEN url[1] ELSE RunUrl(repo, database_id)

\* the (database_id, run_url) made of a matching entry
ProjectRun(entry, repo) ==
    LET database_id == Str(entry.databaseId)
    IN  <<database_id, UrlOrDefault(entry.url, repo, database_id)>>

\* ScanRuns without the comparison of the branch
ScanRuns_AnyBranch(runs, branch, repo) ==
    IF runs = <<>> THEN None ELSE Some(ProjectRun(Head(runs), repo))

\* ScanRuns that keeps scanning after a match: the last entry on the branch
RECURSIVE ScanRuns_LastMatch(_, _, _)
ScanRuns_LastMatch(runs, branch, repo) ==
    IF runs = <<>> THEN None
    ELSE LET later == ScanRuns_LastMatch(Tail(runs), branch, repo)
         IN  IF later # None THEN later
             ELSE IF Head(runs).headBranch = Some(branch)
             THEN Some(ProjectRun(Head(runs), repo))
             ELSE None

\* the for loop: the run of the first entry on the branch, None when the
\* loop ends without a return
RECURSIVE ScanRuns(_, _, _)
ScanRuns(runs, branch, repo) ==
    IF runs = <<>> THEN None
    ELSE IF Head(runs).headBranch = Some(branch) THEN Some(ProjectRun(Head(runs), repo))
    ELSE ScanRuns(Tail(runs), branch, repo)

\* FastPath that reads a variable of another name
FastPath_OtherName(env) == Truthy(Get(env, "GITHUB_RUN_NUMBER"))

\* the fast path is taken: GITHUB_RUN_ID is defined and not empty
FastPath(env) == Truthy(Get(env, "GITHUB_RUN_ID"))

\* LookupResult that goes on with an empty run when the listing call failed
LookupResult_Swallow(resp, branch, repo) ==
    IF resp.kind # "list"
    THEN [exc |-> NoException, run |-> Some(<<"", "">>)]
    ELSE LET found == ScanRuns(resp.runs, branch, repo)
         IN  IF found = None
             THEN [exc |-> Exception("RuntimeError"), run |-> None]
             ELSE [exc |-> NoException, run |-> found]

\* what locate_workflow_run makes of the response of the listing call:
\* the exception it raises, or the run it returns
LookupResult(resp, branch, repo) ==
    CASE resp.kind = "failed" -> [exc |-> CalledProcessError(1), run |-> None]
      [] resp.kind = "empty" -> [exc |-> Exception("RuntimeError"), run |-> None]
      [] resp.kind = "object" -> [exc |-> Exception("RuntimeError"), run |-> None]
      [] OTHER ->
            LET found == ScanRuns(resp.runs, branch, repo)
            IN  IF found = None
                THEN [exc |-> Exception("RuntimeError"), run |-> None]
                ELSE [exc |-> NoException, run |-> found]

-----------------------------------------------------------------------------
(* invoke_stage_shell *)

ScriptPath == "scripts/stage_release.sh"

DelegateCmd(release_version, staging, run_id, run_url) ==
    <<ScriptPath, "--release-version", release_version, "--tmp", staging,
      "--run-id", run_id, "--run-url", run_url>>

\* SetDefault that assigns the key whether the dict has it or not
SetDefault_Overwrite(env, key, value) ==
    [k \in DOMAIN env \cup {key} |-> IF k = key THEN value ELSE env[k]]

\* dict.setdefault: the value of a key the dict has is kept
SetDefault(env, key, value) ==
    [k \in DOMAIN env \cup {key} |-> IF k \in DOMAIN env THEN env[k] ELSE value]

\* os.environ.copy() followed by the four setdefault calls
DelegateEnv(env, release_version, staging, run_id, run_url) ==
    SetDefault(
        SetDefault(
            SetDefault(
                SetDefault(env, "SEA_RELEASE_VERSION", release_version),
                "SEA_RELEASE_TMP", staging),
            "SEA_RELEASE_RUN_ID", run_id),
        "SEA_RELEASE_RUN_URL", run_url)

-----------------------------------------------------------------------------
(* The process. *)

Init ==
    /\ pc = "start"
    /\ cmdline \in CommandLines
    /\ environ \in Environments
    /\ "GITHUB_REPOSITORY" \in DOMAIN environ => cmdline.repo = None
    /\ args = None
    /\ fs \in {BaseDirs \cup d : d \in SUBSET TmpTargets(cmdline)}
    /\ fs0 = fs
    /\ removed = {}
    /\ staging_dir = None
    /\ scratch = None
    /\ gh_calls = <<>>
    /\ response = None
    /\ run = None
    /\ script_checked = FALSE
    /\ delegate_calls = <<>>
    /\ raised = NoException
    /\ exit_status = None

\* main, line 136: argparse exits 0 after printing the help, exits 2 when
\* the required --release-version is missing, and returns the Namespace
\* otherwise
ParseArgs ==
    /\ pc = "start"
    /\ UNCHANGED <<cmdline, environ, fs0, staging_dir, gh_calls, response, run,
                   script_checked, delegate_calls>>
    /\ IF cmdline.help
       THEN Exit(SystemExit(0)) /\ UNCHANGED args
       ELSE IF cmdline.release_version = None
       THEN Exit(SystemExit(EXIT_USAGE)) /\ UNCHANGED args
       ELSE /\ args' = Some(parse_args(cmdline, environ))
            /\ pc' = "setup"
            /\ UNCHANGED <<fs, removed, scratch, raised, exit_status>>

\* main, lines 139-141 and 146-147: the staging directory is the one --tmp
\* names, created when missing, or a fresh scratch directory
SetupStaging ==
    /\ pc = "setup"
    /\ IF Truthy(args[1].tmp)
       THEN LET dir == Resolve(args[1].tmp[1])
            IN  /\ fs' = fs \cup {dir}
                /\ staging_dir' = Some(dir)
                /\ scratch' = scratch
       ELSE /\ ScratchDir \notin fs
            /\ fs' = fs \cup {ScratchDir}
            /\ staging_dir' = Some(ScratchDir)
            /\ scratch' = Some(ScratchDir)
    /\ pc' = "locate"
    /\ UNCHANGED <<cmdline, environ, args, fs0, removed, gh_calls, response, run,
                   script_checked, delegate_calls, raised, exit_status>>

\* locate_workflow_run and what main does with its outcome
LocateWorkflowRun ==
    /\ pc = "locate"
    /\ UNCHANGED <<cmdline, environ, args, fs0, staging_dir, script_checked,
                   delegate_calls>>
    /\ IF FastPath(environ)
       THEN LET run_id == environ["GITHUB_RUN_ID"]
            IN  /\ run' = Some(<<run_id, RunUrl(args[1].repo, run_id)>>)
                /\ pc' = "invoke"
                /\ UNCHANGED <<gh_calls, response, fs, removed, scratch, raised,
                               exit_status>>
       ELSE \E resp \in Responses :
              LET result == LookupResult(resp, ExpectedBranch(args[1].release_version),
                                         args[1].repo)
              IN  /\ gh_calls' = Append(gh_calls,
                                        GhRunListArgs(args[1].repo, args[1].workflow))
                  /\ response' = Some(resp)
                  /\ IF result.exc = NoException
                     THEN /\ run' = result.run
                          /\ pc' = "invoke"
                          /\ UNCHANGED <<fs, removed, scratch, raised, exit_status>>
                     ELSE /\ Exit(result.exc)
                          /\ UNCHANGED run

\* invoke_stage_shell and what main and the __main__ block do with its
\* outcome: the helper script is missing, or it runs and exits with status
InvokeStageShell ==
    /\ pc = "invoke"
    /\ UNCHANGED <<cmdline, environ, args, fs0, staging_dir, gh_calls, response, run>>
    /\ \E exists \in BOOLEAN :
         IF ~exists
         THEN /\ Exit(Exception("FileNotFoundError"))
              /\ UNCHANGED <<script_checked, delegate_calls>>
         ELSE \E status \in DelegateStatuses :
                /\ script_checked' = TRUE
                /\ delegate_calls' = Append(delegate_calls,
                      [cmd |-> DelegateCmd(args[1].release_version, staging_dir[1],
                                           run[1][1], run[1][2]),
                       env |-> DelegateEnv(environ, args[1].release_version,
                                           staging_dir[1], run[1][1], run[1][2]),
                       status |-> Some(status)])
                /\ Exit(IF status = 0 THEN NoException ELSE CalledProcessError(status))

\* Ctrl-C while main runs: before the step at hand has had an effect, during
\* the listing call, or during the run of the helper script
KeyboardInterrupt ==
    /\ pc \in {"start", "setup", "locate", "invoke"}
    /\ UNCHANGED <<cmdline, environ, args, fs0, staging_dir, run>>
    /\ \/ UNCHANGED <<gh_calls, response, script_checked, delegate_calls>>
       \/ /\ pc = "locate"
          /\ ~FastPath(environ)
          /\ gh_calls' = Append(gh_calls, GhRunListArgs(args[1].repo, args[1].workflow))
          /\ UNCHANGED <<response, script_checked, delegate_calls>>
       \/ /\ pc = "invoke"
          /\ script_checked' = TRUE
          /\ delegate_calls' = Append(delegate_calls,
                [cmd |-> DelegateCmd(args[1].release_version, staging_dir[1],
                                     run[1][1], run[1][2]),
                 env |-> DelegateEnv(environ, args[1].release_version,
                                     staging_dir[1], run[1][1], run[1][2]),
                 status |-> None])
          /\ UNCHANGED <<gh_calls, response>>
    /\ Exit(Exception("KeyboardInterrupt"))

Next ==
    \/ ParseArgs
    \/ SetupStaging
    \/ LocateWorkflowRun
    \/ InvokeStageShell
    \/ KeyboardInterrupt

Spec == Init /\ [][Next]_vars

-----------------------------------------------------------------------------
(* Vocabulary of the properties. *)

Exited == pc = "exited"

\* the listing call returned an array
Listed == response # None /\ response[1].kind = "list"

\* the branch a run of the release is on, written out
SeaBranch == "sea-v" \o args[1].release_version

\* positions of the entries of the listing that are on that branch
Matching == {i \in 1..Len(response[1].runs) : response[1].runs[i].headBranch = Some(SeaBranch)}

\* the listing call returned an array none of whose entries is on the branch
NoEntryMatches == Listed /\ Matching = {}

FirstMatch == response[1].runs[CHOOSE i \in Matching : \A j \in Matching : i <= j]

\* the helper script was run and exited with a non-zero status
DelegateFailed ==
    /\ delegate_calls # <<>>
    /\ delegate_calls[1].status # None
    /\ delegate_calls[1].status[1] # 0

\* the command line is one argparse accepts
ValidCommandLine == ~cmdline.help /\ cmdline.release_version # None

-----------------------------------------------------------------------------
(* C1 *)

\* C1: when the lookup path is taken and no entry of the listing is on the
\* expected branch, the process has failed (it has exited, with a non-zero
\* status) and the helper script has neither been looked for nor been run.
C1_NoMatchFailsBeforeDelegate ==
    NoEntryMatches =>
        /\ Exited
        /\ exit_status[1] # 0
        /\ delegate_calls = <<>>
        /\ ~script_checked

\* a listing with entries, none on the branch, has been scanned
C1_Witness ==
    /\ NoEntryMatches
    /\ Len(response[1].runs) = MaxRuns
    /\ \E i \in 1..Len(response[1].runs) :
         response[1].runs[i].headBranch = Some("sea-v1.2.3")
    /\ Exited

-----------------------------------------------------------------------------
(* C2 *)

-----------------------------------------------------------------------------
(* C3 *)

\* what the fast path returns for the run id of the environment, written out
FastRun ==
    <<environ["GITHUB_RUN_ID"],
      "https://github.com/" \o args[1].repo \o "/actions/runs/" \o environ["GITHUB_RUN_ID"]>>

\* C3, as stated: when GITHUB_RUN_ID is defined in the environment, no
\* listing call is made and the resolved run is that id with the URL
\* https://github.com/<repo>/actions/runs/<id>.
C3_PresentRunIdSkipsListing ==
    "GITHUB_RUN_ID" \in DOMAIN environ =>
        /\ gh_calls = <<>>
        /\ response = None
        /\ run # None => run[1] = FastRun

\* C3, amended: when GITHUB_RUN_ID is defined in the environment and is not
\* the empty string, no listing call is made and the resolved run is that id
\* with the URL https://github.com/<repo>/actions/runs/<id>, whatever the
\* release version and the workflow name are.
C3_NonEmptyRunIdSkipsListing ==
    ("GITHUB_RUN_ID" \in DOMAIN environ /\ environ["GITHUB_RUN_ID"] # "") =>
        /\ gh_calls = <<>>
        /\ response = None
        /\ run # None => run[1] = FastRun
        /\ pc = "invoke" => run # None

\* the fast path has returned, with a workflow name given on the command line
C3_Witness ==
    /\ "GITHUB_RUN_ID" \in DOMAIN environ
    /\ environ["GITHUB_RUN_ID"] = "77"
    /\ cmdline.workflow # None
    /\ run # None
    /\ pc = "invoke"

-----------------------------------------------------------------------------
(* C4 *)

\* C4: without --tmp, once the process has exited the directory it staged in
\* does not exist and the directories are those that existed at the start;
\* with --tmp, the directory it names is never removed by the process, it
\* exists whenever it existed at the start, and it exists once main has set
\* up the staging directory.
C4_StagingDirLifetime ==
    /\ (cmdline.tmp = None /\ Exited) =>
            /\ staging_dir # None => staging_dir[1] \notin fs
            /\ fs = fs0
    /\ cmdline.tmp # None =>
            LET dir == Resolve(cmdline.tmp[1])
            IN  /\ dir \notin removed
                /\ dir \in fs0 => dir \in fs
                /\ staging_dir # None => dir \in fs

\* the helper script failed in a scratch directory, which has been removed
C4_Witness ==
    /\ Exited
    /\ staging_dir # None
    /\ raised.type = "CalledProcessError"
    /\ delegate_calls # <<>>
    /\ cmdline.tmp = None
    /\ removed = {ScratchDir}

-----------------------------------------------------------------------------
(* C5 *)

\* the value each variable gets when the caller does not define it
SeaDefault(k) ==
    CASE k = "SEA_RELEASE_VERSION" -> args[1].release_version
      [] k = "SEA_RELEASE_TMP" -> staging_dir[1]
      [] k = "SEA_RELEASE_RUN_ID" -> run[1][1]
      [] k = "SEA_RELEASE_RUN_URL" -> run[1][2]

\* C5: the environment of every run of the helper script defines the four
\* SEA_RELEASE_* variables; one the caller defines has the caller's value,
\* one the caller does not define has the release version, the staging
\* path, the run id or the run URL; every other variable of the caller is
\* passed with its value, and nothing else is passed.
C5_DelegateEnvironment ==
    \A n \in 1..Len(delegate_calls) :
        LET env == delegate_calls[n].env
        IN  /\ DOMAIN env = DOMAIN environ \cup
                   {"SEA_RELEASE_VERSION", "SEA_RELEASE_TMP", "SEA_RELEASE_RUN_ID",
                    "SEA_RELEASE_RUN_URL"}
            /\ \A k \in DOMAIN environ : env[k] = environ[k]
            /\ \A k \in DOMAIN env \ DOMAIN environ : env[k] = SeaDefault(k)

\* the helper script ran with a caller who defines two of the variables, one
\* of them as the empty string
C5_Witness ==
    /\ delegate_calls # <<>>
    /\ DOMAIN environ \cap SeaNames = {"SEA_RELEASE_TMP", "SEA_RELEASE_RUN_ID"}
    /\ delegate_calls[1].env["SEA_RELEASE_TMP"] = ""
    /\ delegate_calls[1].env["SEA_RELEASE_VERSION"] = "1.2.3"

-----------------------------------------------------------------------------
(* C6 *)

\* the orderings of a listing
Orderings(runs) ==
    {[i \in 1..Len(runs) |-> runs[p[i]]] :
        p \in {q \in [1..Len(runs) -> 1..Len(runs)] :
                 \A i, j \in 1..Len(runs) : q[i] = q[j] => i = j}}

\* C6: on the lookup path, when the listing call returned an array, the
\* resolver returns the run of the first entry whose branch is exactly
\* "sea-v" followed by the release version, and returns none when no entry
\* is on that branch; when exactly one entry is, every ordering of the
\* entries resolves to the same run.
C6_FirstExactMatch ==
    Listed =>
        IF Matching = {} THEN run = None
        ELSE /\ run = Some(ProjectRun(FirstMatch, args[1].repo))
             /\ Cardinality(Matching) = 1 =>
                    \A l \in Orderings(response[1].runs) :
                        ScanRuns(l, SeaBranch, args[1].repo) = run

\* two entries on the branch of 1.2.3 with different ids, after an entry on
\* the branch of 1.2
C6_Witness ==
    /\ Listed
    /\ args[1].release_version = "1.2.3"
    /\ Len(response[1].runs) = MaxRuns
    /\ response[1].runs[1].headBranch = Some("sea-v1.2")
    /\ Matching # {}
    /\ run # None
    /\ run[1][1] \in {"101", "102"}

-----------------------------------------------------------------------------
(* C7 *)

\* C7: on the lookup path, when the matched entry has no url, the run URL is
\* https://github.com/<repo>/actions/runs/<run_id> with the run id resolved
\* from that entry; when the matched entry has a url that is not empty, the
\* run URL is that url.
C7_RunUrlOfMatch ==
    (Listed /\ Matching # {}) =>
        /\ FirstMatch.url = None =>
              run[1][2] = "https://github.com/" \o args[1].repo \o "/actions/runs/" \o run[1][1]
        /\ FirstMatch.databaseId # None => run[1][1] = ToString(FirstMatch.databaseId[1])
        /\ (FirstMatch.url # None /\ FirstMatch.url[1] # "") => run[1][2] = FirstMatch.url[1]

\* the matched entry has no url and the repository is the default one
C7_Witness ==
    /\ Listed
    /\ Matching # {}
    /\ FirstMatch.url = None
    /\ run = Some(<<"102", "https://github.com/terrazul-ai/terrazul/actions/runs/102">>)

-----------------------------------------------------------------------------
(* C8 *)

\* resolution succeeded and the helper script ran and exited with status 0
StagedSuccessfully ==
    /\ run # None
    /\ delegate_calls # <<>>
    /\ delegate_calls[1].status = Some(0)

\* C8, as stated: the process exits 0 exactly when resolution succeeded and
\* the helper script ran successfully, 130 when it is interrupted, at
\* whatever step, and 1 on any other failure.
C8_ExitCodeMapping ==
    Exited =>
        /\ exit_status[1] = 0 <=> StagedSuccessfully
        /\ raised.type = "KeyboardInterrupt" => exit_status[1] = 130
        /\ (~StagedSuccessfully /\ raised.type # "KeyboardInterrupt") => exit_status[1] = 1

\* C8, amended: the process exits 130 when it is interrupted, at whatever
\* step.  Otherwise, started with a command line that argparse accepts, it
\* exits 0 exactly when resolution succeeded and the helper script ran
\* successfully and 1 on any other failure, a non-zero exit of the helper
\* script included; started with --help it exits 0 and started without
\* --release-version it exits 2, in both cases before any step has run.
C8_ExitCodeMappingOfValidCommandLine ==
    Exited =>
        /\ raised.type = "KeyboardInterrupt" <=> exit_status[1] = 130
        /\ (ValidCommandLine /\ raised.type # "KeyboardInterrupt") =>
              /\ exit_status[1] = 0 <=> StagedSuccessfully
              /\ ~StagedSuccessfully => exit_status[1] = 1
        /\ (~ValidCommandLine /\ raised.type # "KeyboardInterrupt") =>
              /\ exit_status[1] = (IF cmdline.help THEN 0 ELSE 2)
              /\ staging_dir = None /\ gh_calls = <<>> /\ delegate_calls = <<>>

\* an interrupt during the run of the helper script
C8_Witness ==
    /\ Exited
    /\ ValidCommandLine
    /\ delegate_calls # <<>>
    /\ delegate_calls[1].status = None
    /\ exit_status = Some(130)

-----------------------------------------------------------------------------
(* C9 *)

-----------------------------------------------------------------------------
(* C10 *)

\* the resolver has returned a run
Resolved == run # None

\* the listing call was made and did not lead to a run
ListingFailed == gh_calls # <<>> /\ ~(Listed /\ Matching # {})

\* C10: the listing call is made at most once and the helper script is run
\* at most once; the helper script is looked for only after the resolver
\* has returned a run, and run only after it was found; after a failure of
\* the listing step the process has exited without a run of the helper
\* script, and after a failure of the helper script it has exited without
\* another listing call.
C10_LinearNoRetry ==
    /\ Len(gh_calls) <= 1
    /\ Len(delegate_calls) <= 1
    /\ script_checked => Resolved
    /\ delegate_calls # <<>> => (Resolved /\ script_checked)
    /\ ListingFailed => (Exited /\ ~script_checked /\ delegate_calls = <<>>)
    /\ (delegate_calls # <<>> /\ delegate_calls[1].status # Some(0)) => Exited
    /\ (raised # NoException) => Exited

\* the listing call and then the helper script were run, and the script failed
C10_Witness ==
    /\ Exited
    /\ Len(gh_calls) = 1
    /\ DelegateFailed

====
